---- MODULE Spec2Model ----
(***************************************************************************)
(* twunproxy: the command dispatch / shard discovery engine.               *)
(*                                                                         *)
(* ProxyConn.do runs a Redis command for a key.  With a mapping for the    *)
(* key in KeyInstance it runs the command on the mapped pool.  Without one *)
(* it starts one doInstance goroutine per pool; each of them starts a      *)
(* goroutine that issues the command, tests the reply with canMap, records *)
(* the mapping and sends the reply on the results channel.  A collecting   *)
(* goroutine receives the first result and sends one message on the stop   *)
(* channel.  do waits on the wait group and returns the collected result.  *)
(*                                                                         *)
(* Goroutines are modelled by their positions, unbuffered channels by a    *)
(* rendezvous of a sender and a receiver that are both at the operation.   *)
(***************************************************************************)
EXTENDS Integers, FiniteSets, Sequences, TLC

\* ------------------------------------------------------------------ bounds
MaxShards == 2      \* most pools of a ProxyConn (sequential specification)
MaxConcShards == 1  \* most pools of a ProxyConn (concurrent specification)
NumCallers == 2     \* goroutines that call do
NumKeys == 2        \* distinct command keys
MaxCalls == 2       \* do calls made by one caller

Shards == 1..(IF MaxShards > MaxConcShards THEN MaxShards ELSE MaxConcShards)
Callers == 1..NumCallers
Keys == 1..NumKeys

\* ------------------------------------------------------------ data values
NoPool == 0         \* KeyInstance has no entry for the key
NilVal == 0         \* a nil reply
NoErr == 0          \* a nil error
NoMappingErr == -1  \* errors.New("No results returned that could ...")
NilChan == "nil"    \* a nil channel value
Chan == "chan"      \* the channel made by make(chan ...)

\* The reply of pool i is nil or a payload of its own; its error likewise.
Payload(i) == i
ErrOf(i) == i
Replies(i) == [val : {NilVal, Payload(i)}, err : {NoErr, ErrOf(i)}]

TimedOutErr == -2   \* errors.New("BLPOP timed out.")
EmptyStr == 0       \* the string ""
PanicErr == -3      \* panic: interface conversion: interface is nil

\* A failed type assertion in BLPop: nothing is returned, the process ends.
Panic == [str |-> EmptyStr, err |-> PanicErr]

\* The two revisions of BLPop in the repository.
InTwunproxy == "twunproxy.go"
InCommands == "commands.go"
Revisions == {InTwunproxy, InCommands}

\* RedisReturn{val, err}
RedisReturn(v, e) == [val |-> v, err |-> e]

\* The acceptance tests the callers of do supply.
Preds == {"notNil", "always", "never"}
canMap(p, v) ==
    CASE p = "notNil" -> v # NilVal
      [] p = "always" -> TRUE
      [] p = "never" -> FALSE

VARIABLES
    Pools,        \* r.Pools: the number of pools; pool i is shard i
    KeyInstance,  \* r.KeyInstance: key -> pool, NoPool when absent
    live,         \* the callers that exist in this run
    calls,        \* calls[c]: do calls caller c has started
    dpc,          \* dpc[c]: position of caller c in do
    cmd,          \* cmd[c]: [key, pred] of the call in progress
    results,      \* results[c]: do's variable results (Chan or NilChan)
    res,          \* res[c]: do's variable res
    wg,           \* wg[c]: the wait group's counter
    cpc,          \* cpc[c]: position of the collecting goroutine
    wpc,          \* wpc[c][i]: position of doInstance for pool i
    ipc,          \* ipc[c][i]: position of the command goroutine of pool i
    resArg,       \* resArg[c][i]: doInstance's parameter res
    reply,        \* reply[c][i]: what conn.Do returned
    ret,          \* ret[c]: what do returned
    \* history of the call in progress
    path,         \* path[c]: "none", "fast" or "discovery"
    lookup,       \* lookup[c]: KeyInstance[key] when the call started
    acquired,     \* acquired[c][i]: pool.Get() calls on pool i
    released,     \* released[c][i]: conn.Close() calls on pool i's connection
    issued,       \* issued[c][i]: conn.Do calls on pool i's connection
    replied,      \* replied[c][i]: conn.Do calls that have returned
    accepted,     \* accepted[c]: pools whose reply satisfied canMap
    wrote,        \* wrote[c]: number of writes into KeyInstance
    from,         \* from[c]: pool whose result the collector received
    stopped,      \* stopped[c]: pools whose doInstance received from stop
    resolved,     \* keys for which a discovery with one acceptance returned
    known,        \* known[c]: the key was in resolved when the call started
    \* BLPop and BGSave
    rev,          \* the revision of BLPop this run is built from
    bpc,          \* bpc[c]: position of caller c in BLPop
    bret,         \* bret[c]: what BLPop returned
    spc,          \* spc[c]: position of caller c in BGSave
    si,           \* si[c]: BGSave's variable i
    slog,         \* slog[c]: the BGSAVE commands issued, with their errors
    sret          \* sret[c]: what BGSave returned

vars == <<Pools, KeyInstance, live, calls, dpc, cmd, results, res, wg, cpc,
          wpc, ipc, resArg, reply, ret, path, lookup, acquired, released,
          issued, replied, accepted, wrote, from, stopped, resolved, known,
          rev, bpc, bret, spc, si, slog, sret>>

callVars == <<calls, cmd, lookup, known, path>>
cmdVars == <<rev, bpc, bret, spc, si, slog, sret>>
histVars == <<acquired, released, issued, replied, accepted, wrote, from,
              stopped>>

PoolSet == 1..Pools

NoReturn == RedisReturn(NilVal, NoErr)
\* A default result that carries no error.
DefaultResNoError == RedisReturn(NilVal, NoErr)

\* res := RedisReturn{val: nil, err: errors.New("No results returned ...")}
DefaultRes == RedisReturn(NilVal, NoMappingErr)

Zero == [i \in Shards |-> 0]
Idle == [i \in Shards |-> "none"]

InitWith(n, cs) ==
    /\ Pools \in 1..n
    /\ KeyInstance = [k \in Keys |-> NoPool]
    /\ live = cs
    /\ calls = [c \in Callers |-> 0]
    /\ dpc = [c \in Callers |-> "idle"]
    /\ cmd = [c \in Callers |-> [key |-> 1, pred |-> "never"]]
    /\ results = [c \in Callers |-> NilChan]
    /\ res = [c \in Callers |-> NoReturn]
    /\ wg = [c \in Callers |-> 0]
    /\ cpc = [c \in Callers |-> "none"]
    /\ wpc = [c \in Callers |-> Idle]
    /\ ipc = [c \in Callers |-> Idle]
    /\ resArg = [c \in Callers |-> [i \in Shards |-> NilChan]]
    /\ reply = [c \in Callers |-> [i \in Shards |-> NoReturn]]
    /\ ret = [c \in Callers |-> NoReturn]
    /\ path = [c \in Callers |-> "none"]
    /\ lookup = [c \in Callers |-> NoPool]
    /\ acquired = [c \in Callers |-> Zero]
    /\ released = [c \in Callers |-> Zero]
    /\ issued = [c \in Callers |-> Zero]
    /\ replied = [c \in Callers |-> Zero]
    /\ accepted = [c \in Callers |-> {}]
    /\ wrote = [c \in Callers |-> 0]
    /\ from = [c \in Callers |-> NoPool]
    /\ stopped = [c \in Callers |-> {}]
    /\ resolved = {}
    /\ known = [c \in Callers |-> FALSE]

\* No BLPop or BGSave is in progress; BLPop is the one of revision rv.
NoOut == [str |-> EmptyStr, err |-> NoErr]
NoCount == [n |-> 0, err |-> NoErr]
CmdIdle(rv) ==
    /\ rev = rv
    /\ bpc = [c \in Callers |-> "idle"]
    /\ bret = [c \in Callers |-> NoOut]
    /\ spc = [c \in Callers |-> "idle"]
    /\ si = [c \in Callers |-> 0]
    /\ slog = [c \in Callers |-> <<>>]
    /\ sret = [c \in Callers |-> NoCount]

\* One caller: do calls follow one another.
Init == InitWith(MaxShards, {1}) /\ CmdIdle(InTwunproxy)

\* ---------------------------------------------------------------- do
\* A caller may call do when it has no call in progress.
CanCall(c) ==
    /\ c \in live
    /\ dpc[c] \in {"idle", "returned"}
    /\ calls[c] < MaxCalls

\* The calls of do made so far by the callers of S.
RECURSIVE CallsMade(_)
CallsMade(S) ==
    IF S = {} THEN 0
    ELSE LET c == CHOOSE x \in S : TRUE IN calls[c] + CallsMade(S \ {c})

\* The cmd.key of the next call.  Keys are only compared for equality, so
\* the n-th call names one of the first n keys: every other choice is one
\* of these with the keys renamed.
CallKeys == {k \in Keys : k <= CallsMade(Callers) + 1}

BeginCall(c, k, p) ==
    /\ calls' = [calls EXCEPT ![c] = @ + 1]
    /\ cmd' = [cmd EXCEPT ![c] = [key |-> k, pred |-> p]]
    /\ lookup' = [lookup EXCEPT ![c] = KeyInstance[k]]
    /\ known' = [known EXCEPT ![c] = k \in resolved]
    /\ ret' = [ret EXCEPT ![c] = NoReturn]
    /\ accepted' = [accepted EXCEPT ![c] = {}]
    /\ wrote' = [wrote EXCEPT ![c] = 0]
    /\ from' = [from EXCEPT ![c] = NoPool]
    /\ stopped' = [stopped EXCEPT ![c] = {}]
    /\ released' = [released EXCEPT ![c] = Zero]
    /\ replied' = [replied EXCEPT ![c] = Zero]

\* if pool, ok := r.KeyInstance[cmd.key]; ok
HasMapping(k) == KeyInstance[k] # NoPool

\* A fast path that takes its connection from the first pool.
FastPoolFirst(k) == 1

\* the pool the fast path takes its connection from
FastPool(k) == KeyInstance[k]

\* Fast path: conn := pool.Get(); conn.Do(...) is issued.
doFast(c, k, p) ==
    /\ CanCall(c)
    /\ HasMapping(k)
    /\ BeginCall(c, k, p)
    /\ path' = [path EXCEPT ![c] = "fast"]
    /\ dpc' = [dpc EXCEPT ![c] = "fastDo"]
    /\ acquired' = [acquired EXCEPT ![c] = [Zero EXCEPT ![FastPool(k)] = 1]]
    /\ issued' = [issued EXCEPT ![c] = [Zero EXCEPT ![FastPool(k)] = 1]]
    /\ UNCHANGED <<Pools, KeyInstance, live, results, res, wg, cpc, wpc, ipc,
                   resArg, reply, resolved>>

\* A fast path that returns the value and drops the error.
FastResultNoErr(r) == RedisReturn(r.val, NoErr)

\* return conn.Do(cmd.name, cmd.getArgs()...)
FastResult(r) == r

\* Fast path: conn.Do returns, the deferred conn.Close() runs, do returns
\* what conn.Do returned.
doFastReturn(c, r) ==
    /\ dpc[c] = "fastDo"
    /\ LET s == CHOOSE i \in Shards : acquired[c][i] = 1
       IN /\ r \in Replies(s)
          /\ reply' = [reply EXCEPT ![c][s] = r]
          /\ replied' = [replied EXCEPT ![c][s] = @ + 1]
          /\ released' = [released EXCEPT ![c][s] = @ + 1]
    /\ ret' = [ret EXCEPT ![c] = FastResult(r)]
    /\ dpc' = [dpc EXCEPT ![c] = "returned"]
    /\ UNCHANGED <<Pools, KeyInstance, live, results, res, wg, cpc, wpc, ipc,
                   resArg, acquired, issued, accepted, wrote, from,
                   stopped, resolved>>
    /\ UNCHANGED callVars
    /\ UNCHANGED cmdVars

\* A loop over the pools that leaves the last one out.
StartedButLast(i) == IF i \in PoolSet \ {Pools} THEN "start" ELSE "none"

\* for i := range r.Pools { wg.Add(1); go r.doInstance(i, ...) }: one
\* doInstance is started for each pool, none for anything else.
Started(i) == IF i \in PoolSet THEN "start" ELSE "none"

\* Discovery: make the channels and the wait group, wg.Add(1) and
\* go r.doInstance(...) for every pool, start the collecting goroutine,
\* and reach wg.Wait().
doDiscover(c, k, p) ==
    /\ CanCall(c)
    /\ ~HasMapping(k)
    /\ BeginCall(c, k, p)
    /\ path' = [path EXCEPT ![c] = "discovery"]
    /\ dpc' = [dpc EXCEPT ![c] = "wait"]
    /\ results' = [results EXCEPT ![c] = Chan]
    /\ res' = [res EXCEPT ![c] = DefaultRes]
    /\ wg' = [wg EXCEPT ![c] = Pools]
    /\ cpc' = [cpc EXCEPT ![c] = "loop"]
    /\ wpc' = [wpc EXCEPT ![c] = [i \in Shards |-> Started(i)]]
    /\ ipc' = [ipc EXCEPT ![c] = Idle]
    /\ resArg' = [resArg EXCEPT ![c] = [i \in Shards |-> Chan]]
    /\ reply' = [reply EXCEPT ![c] = [i \in Shards |-> NoReturn]]
    /\ acquired' = [acquired EXCEPT ![c] = Zero]
    /\ issued' = [issued EXCEPT ![c] = Zero]
    /\ UNCHANGED <<Pools, KeyInstance, live, resolved>>

\* ---------------------------------------------------------- doInstance
\* defer wg.Done(); conn := pool.Get(); defer conn.Close();
\* cmdDone := make(chan bool); go func() {...}(); the select is reached.
doInstanceGet(c, i) ==
    /\ wpc[c][i] = "start"
    /\ acquired' = [acquired EXCEPT ![c][i] = @ + 1]
    /\ wpc' = [wpc EXCEPT ![c][i] = "select"]
    /\ ipc' = [ipc EXCEPT ![c][i] = "start"]
    /\ UNCHANGED <<Pools, KeyInstance, live, dpc, results, res, wg, cpc,
                   resArg, reply, ret, released, issued, replied, accepted,
                   wrote, from, stopped, resolved>>
    /\ UNCHANGED callVars
    /\ UNCHANGED cmdVars

\* A doInstance that closes its connection and leaves the wait group alone.
doInstanceExitNoDone(c, i) ==
    /\ released' = [released EXCEPT ![c][i] = @ + 1]
    /\ wg' = wg
    /\ wpc' = [wpc EXCEPT ![c][i] = "done"]

\* The deferred calls of doInstance, in their order: conn.Close(), wg.Done().
doInstanceExit(c, i) ==
    /\ released' = [released EXCEPT ![c][i] = @ + 1]
    /\ wg' = [wg EXCEPT ![c] = @ - 1]
    /\ wpc' = [wpc EXCEPT ![c][i] = "done"]

\* The command goroutine calls conn.Do(cmd.name, cmd.getArgs()...).
cmdIssue(c, i) ==
    /\ ipc[c][i] = "start"
    /\ issued' = [issued EXCEPT ![c][i] = @ + 1]
    /\ ipc' = [ipc EXCEPT ![c][i] = "do"]
    /\ UNCHANGED <<Pools, KeyInstance, live, dpc, results, res, wg, cpc, wpc,
                   resArg, reply, ret, acquired, released, replied, accepted,
                   wrote, from, stopped, resolved>>
    /\ UNCHANGED callVars
    /\ UNCHANGED cmdVars

\* conn.Do returns val, err.
cmdReturn(c, i, r) ==
    /\ ipc[c][i] = "do"
    /\ r \in Replies(i)
    /\ reply' = [reply EXCEPT ![c][i] = r]
    /\ replied' = [replied EXCEPT ![c][i] = @ + 1]
    /\ ipc' = [ipc EXCEPT ![c][i] = "test"]
    /\ UNCHANGED <<Pools, KeyInstance, live, dpc, results, res, wg, cpc, wpc,
                   resArg, ret, resolved, acquired, released, issued,
                   accepted, wrote, from, stopped>>
    /\ UNCHANGED callVars
    /\ UNCHANGED cmdVars

\* if res != nil: res is doInstance's own parameter
ResOpen(c, i) == resArg[c][i] # NilChan

\* A command goroutine that records no mapping.
RecordNothing(k, i) == KeyInstance

\* A command goroutine that records the first pool, whichever replied.
RecordFirstPool(k, i) == [KeyInstance EXCEPT ![k] = 1]

\* r.KeyInstance[cmd.key] = pool
Record(k, i) == [KeyInstance EXCEPT ![k] = i]

\* A command goroutine that returns on an invocation error without
\* sending on cmdDone.
AfterRejectErrReturn(c, i) ==
    IF reply[c][i].err # NoErr THEN "done" ELSE "cmdDone"

\* Where the command goroutine goes when the reply is not accepted: the
\* error of the invocation is not looked at.
AfterReject(c, i) == "cmdDone"

\* canMap(val) is evaluated.  When it accepts and res != nil the goroutine
\* goes on to write the mapping; otherwise it goes on to cmdDone <- true
\* and val is dead (err is kept as the record of an invocation error).
cmdTest(c, i) ==
    /\ ipc[c][i] = "test"
    /\ IF canMap(cmd[c].pred, reply[c][i].val)
       THEN /\ accepted' = [accepted EXCEPT ![c] = @ \cup {i}]
            /\ IF ResOpen(c, i)
               THEN /\ ipc' = [ipc EXCEPT ![c][i] = "write"]
                    /\ UNCHANGED reply
               ELSE /\ ipc' = [ipc EXCEPT ![c][i] = "cmdDone"]
                    /\ reply' = [reply EXCEPT ![c][i] = NoReturn]
       ELSE /\ ipc' = [ipc EXCEPT ![c][i] = AfterReject(c, i)]
            /\ reply' = [reply EXCEPT ![c][i] = RedisReturn(NilVal, @.err)]
            /\ UNCHANGED accepted
    /\ UNCHANGED <<Pools, KeyInstance, live, dpc, results, res, wg, cpc, wpc,
                   resArg, ret, acquired, released, issued, replied, wrote,
                   from, stopped, resolved>>
    /\ UNCHANGED callVars
    /\ UNCHANGED cmdVars

\* The command goroutines that are inside the assignment to the map.  The
\* map has no lock: the assignment of one goroutine excludes no other.
MapWriters == {w \in Callers \X Shards : ipc[w[1]][w[2]] = "write"}

\* r.KeyInstance[cmd.key] = pool completes.
cmdRecord(c, i) ==
    /\ ipc[c][i] = "write"
    /\ KeyInstance' = Record(cmd[c].key, i)
    /\ wrote' = [wrote EXCEPT ![c] = @ + 1]
    /\ ipc' = [ipc EXCEPT ![c][i] = "send"]
    /\ UNCHANGED <<Pools, live, dpc, results, res, wg, cpc, wpc, resArg,
                   reply, ret, acquired, released, issued, replied, accepted,
                   from, stopped, resolved>>
    /\ UNCHANGED callVars
    /\ UNCHANGED cmdVars

\* Two goroutines are inside the assignment to the map at once: the Go
\* runtime may detect it ("fatal error: concurrent map writes") and end the
\* process, or let both assignments complete in either order (cmdRecord).
mapFault(w, x) ==
    /\ w \in MapWriters
    /\ x \in MapWriters
    /\ w # x
    /\ dpc' = [c \in Callers |-> "crashed"]
    /\ cpc' = [c \in Callers |-> "crashed"]
    /\ wpc' = [c \in Callers |-> [i \in Shards |-> "crashed"]]
    /\ ipc' = [c \in Callers |-> [i \in Shards |-> "crashed"]]
    /\ UNCHANGED <<Pools, KeyInstance, live, results, res, wg, resArg, reply,
                   ret, resolved>>
    /\ UNCHANGED callVars
    /\ UNCHANGED histVars
    /\ UNCHANGED cmdVars

\* res <- RedisReturn{val, err} meets res = <-results of the collector.
\* The sender goes on to the loop for res != nil {}.
resultsRecv(c, i) ==
    /\ ipc[c][i] = "send"
    /\ cpc[c] = "recv"
    /\ res' = [res EXCEPT ![c] = reply[c][i]]
    /\ from' = [from EXCEPT ![c] = i]
    /\ ipc' = [ipc EXCEPT ![c][i] = "spin"]
    /\ cpc' = [cpc EXCEPT ![c] = "stop"]
    /\ UNCHANGED <<Pools, KeyInstance, live, dpc, results, wg, wpc, resArg,
                   reply, ret, acquired, released, issued, replied, accepted,
                   wrote, stopped, resolved>>
    /\ UNCHANGED callVars
    /\ UNCHANGED cmdVars

\* A command goroutine that sends on cmdDone before conn.Do has returned.
AtCmdDoneEarly(c, i) == ipc[c][i] \in {"do", "cmdDone"}

\* A command goroutine whose send of the result does not block (a buffered
\* results channel): it reaches cmdDone <- true with the result unread.
AtCmdDoneNoWait(c, i) == ipc[c][i] \in {"send", "cmdDone"}

\* The command goroutine is at cmdDone <- true: it skipped the send, or it
\* left the loop for res != nil {} because res is nil.
AtCmdDone(c, i) ==
    \/ ipc[c][i] = "cmdDone"
    \/ ipc[c][i] = "spin" /\ ~ResOpen(c, i)

\* cmdDone <- true meets case <-cmdDone of the select: doInstance returns.
cmdDoneRecv(c, i) ==
    /\ AtCmdDone(c, i)
    /\ wpc[c][i] = "select"
    /\ ipc' = [ipc EXCEPT ![c][i] = "done"]
    /\ doInstanceExit(c, i)
    /\ UNCHANGED <<Pools, KeyInstance, live, dpc, results, res, cpc, resArg,
                   reply, ret, acquired, issued, replied, accepted, wrote,
                   from, stopped, resolved>>
    /\ UNCHANGED callVars
    /\ UNCHANGED cmdVars

\* --------------------------------------------------- the collecting goroutine
\* for results != nil: the read of do's variable results is not ordered with
\* the write results = nil that do makes after wg.Wait(), so once that write
\* is made the read yields either value.
collectorLoop(c, seen) ==
    /\ cpc[c] = "loop"
    /\ seen \in {results[c], Chan}
    /\ cpc' = [cpc EXCEPT ![c] = IF seen # NilChan THEN "recv" ELSE "done"]
    /\ UNCHANGED <<Pools, KeyInstance, live, dpc, results, res, wg, wpc, ipc,
                   resArg, reply, ret, resolved>>
    /\ UNCHANGED callVars
    /\ UNCHANGED histVars
    /\ UNCHANGED cmdVars

\* stop <- true meets case <-stop of the select of one doInstance, which
\* returns.  The collector sets results = nil and leaves its loop.
stopSend(c, j) ==
    /\ cpc[c] = "stop"
    /\ wpc[c][j] = "select"
    /\ stopped' = [stopped EXCEPT ![c] = @ \cup {j}]
    /\ doInstanceExit(c, j)
    /\ results' = [results EXCEPT ![c] = NilChan]
    /\ cpc' = [cpc EXCEPT ![c] = "done"]
    /\ UNCHANGED <<Pools, KeyInstance, live, dpc, res, ipc, resArg, reply,
                   ret, acquired, issued, replied, accepted, wrote, from,
                   resolved>>
    /\ UNCHANGED callVars
    /\ UNCHANGED cmdVars

\* ------------------------------------------------------------ do, the end
\* A do that stops waiting as soon as a result has been received.
WaitOverEarly(c) == wg[c] = 0 \/ res[c] # DefaultRes

\* A wait that is over while one doInstance is still running.
WaitOverAllButOne(c) == wg[c] <= 1

\* wg.Wait() returns when the counter is zero.
WaitOver(c) == wg[c] = 0

\* results = nil; return res.val, res.err
doReturn(c) ==
    /\ dpc[c] = "wait"
    /\ WaitOver(c)
    /\ results' = [results EXCEPT ![c] = NilChan]
    /\ ret' = [ret EXCEPT ![c] = res[c]]
    /\ dpc' = [dpc EXCEPT ![c] = "returned"]
    /\ resolved' = IF Cardinality(accepted[c]) = 1 /\ from[c] # NoPool
                   THEN resolved \cup {cmd[c].key} ELSE resolved
    /\ UNCHANGED <<Pools, KeyInstance, live, res, wg, cpc, wpc, ipc, resArg,
                   reply>>
    /\ UNCHANGED callVars
    /\ UNCHANGED histVars
    /\ UNCHANGED cmdVars

Next ==
    \/ \E c \in live, k \in CallKeys, p \in Preds :
           doFast(c, k, p) /\ UNCHANGED cmdVars
    \/ \E c \in live, i \in Shards : \E r \in Replies(i) : doFastReturn(c, r)
    \/ \E c \in live, k \in CallKeys, p \in Preds :
           doDiscover(c, k, p) /\ UNCHANGED cmdVars
    \/ \E c \in live, i \in Shards : doInstanceGet(c, i)
    \/ \E c \in live, i \in Shards : cmdIssue(c, i)
    \/ \E c \in live, i \in Shards : \E r \in Replies(i) : cmdReturn(c, i, r)
    \/ \E c \in live, i \in Shards : cmdTest(c, i)
    \/ \E c \in live, i \in Shards : cmdRecord(c, i)
    \/ \E w \in MapWriters, x \in MapWriters : mapFault(w, x)
    \/ \E c \in live, i \in Shards : resultsRecv(c, i)
    \/ \E c \in live, i \in Shards : cmdDoneRecv(c, i)
    \/ \E c \in live, seen \in {Chan, NilChan} : collectorLoop(c, seen)
    \/ \E c \in live, j \in Shards : stopSend(c, j)
    \/ \E c \in live : doReturn(c)

Spec == Init /\ [][Next]_vars

\* Several callers: do calls run concurrently on one ProxyConn.
ConcInit == InitWith(MaxConcShards, Callers) /\ CmdIdle(InTwunproxy)
ConcSpec == ConcInit /\ [][Next]_vars

\* ------------------------------------------------------- BLPop, BGSave
\* The variables of do and doInstance.
doVars == <<Pools, KeyInstance, live, calls, dpc, cmd, results, res, wg, cpc,
            wpc, ipc, resArg, reply, ret, path, lookup, acquired, released,
            issued, replied, accepted, wrote, from, stopped, resolved, known>>

\* canMap of BLPop: v != nil in twunproxy.go, v.([]interface{}) succeeds in
\* commands.go.  A reply is nil or a slice, so the two agree.
BLPopCanMap == "notNil"

\* What BLPop makes of the v, err of do.
\* twunproxy.go: return string(v.([]interface{})[1].([]byte)), err
\* commands.go: the error first, then the slice, then "BLPOP timed out."
BLPopOut(rv, r) ==
    IF rv = InTwunproxy
    THEN IF r.val = NilVal THEN Panic ELSE [str |-> r.val, err |-> r.err]
    ELSE IF r.err # NoErr THEN [str |-> EmptyStr, err |-> r.err]
         ELSE IF r.val # NilVal THEN [str |-> r.val, err |-> NoErr]
         ELSE [str |-> EmptyStr, err |-> TimedOutErr]

\* The caller is in none of BLPop, BGSave, and has calls left to make: its
\* BGSave counts as one.
Free(c) ==
    /\ c \in live
    /\ bpc[c] \in {"idle", "returned"}
    /\ spc[c] \in {"idle", "returned"}
    /\ calls[c] + (IF spc[c] = "idle" THEN 0 ELSE 1) < MaxCalls

\* BLPop(key, timeout) up to its call of do.
BLPopCall(c, k) ==
    /\ Free(c)
    /\ doFast(c, k, BLPopCanMap) \/ doDiscover(c, k, BLPopCanMap)
    /\ bpc' = [bpc EXCEPT ![c] = "do"]
    /\ bret' = [bret EXCEPT ![c] = NoOut]
    /\ UNCHANGED <<rev, spc, si, slog, sret>>

\* do has returned: BLPop returns, or its type assertion panics and the
\* process ends.
BLPopReturn(c) ==
    /\ bpc[c] = "do"
    /\ dpc[c] = "returned"
    /\ IF BLPopOut(rev, ret[c]) = Panic
       THEN /\ bpc' = [bpc EXCEPT ![c] = "panicked"]
            /\ dpc' = [d \in Callers |-> "crashed"]
            /\ cpc' = [d \in Callers |-> "crashed"]
            /\ wpc' = [d \in Callers |-> [i \in Shards |-> "crashed"]]
            /\ ipc' = [d \in Callers |-> [i \in Shards |-> "crashed"]]
            /\ UNCHANGED bret
       ELSE /\ bpc' = [bpc EXCEPT ![c] = "returned"]
            /\ bret' = [bret EXCEPT ![c] = BLPopOut(rev, ret[c])]
            /\ UNCHANGED <<dpc, cpc, wpc, ipc>>
    /\ UNCHANGED <<Pools, KeyInstance, live, results, res, wg, resArg, reply,
                   ret, resolved>>
    /\ UNCHANGED callVars
    /\ UNCHANGED histVars
    /\ UNCHANGED <<rev, spc, si, slog, sret>>

\* A BGSave whose count includes the command that failed.
CountAtErrorIncl(i) == i + 1

\* return i, err
CountAtError(i) == i

\* The pool the range loop of BGSave is at: one command was issued on each
\* pool before it.
SavePool(c) == Len(slog[c]) + 1

\* BGSave(interval): i := 0 and the range loop starts.  One BGSave a run.
BGSaveCall(c) ==
    /\ Free(c)
    /\ spc[c] = "idle"
    /\ dpc[c] \in {"idle", "returned"}
    /\ spc' = [spc EXCEPT ![c] = "loop"]
    /\ si' = [si EXCEPT ![c] = 0]
    /\ UNCHANGED <<rev, bpc, bret, slog, sret>>
    /\ UNCHANGED doVars

\* c := pool.Get(); defer c.Close(); c.Do("BGSAVE") is issued.
BGSaveGet(c) ==
    /\ spc[c] = "loop"
    /\ SavePool(c) <= Pools
    /\ spc' = [spc EXCEPT ![c] = "do"]
    /\ UNCHANGED <<rev, bpc, bret, si, slog, sret>>
    /\ UNCHANGED doVars

\* c.Do("BGSAVE") returns error e: with an error BGSave returns i and the
\* error; without, i++, the sleep, and the loop goes on to the next pool.
BGSaveDo(c, e) ==
    /\ spc[c] = "do"
    /\ e \in {NoErr, ErrOf(SavePool(c))}
    /\ slog' = [slog EXCEPT ![c] = Append(@, [pool |-> SavePool(c), err |-> e])]
    /\ IF e # NoErr
       THEN /\ sret' = [sret EXCEPT ![c] = [n |-> CountAtError(si[c]), err |-> e]]
            /\ spc' = [spc EXCEPT ![c] = "returned"]
            /\ UNCHANGED si
       ELSE /\ si' = [si EXCEPT ![c] = @ + 1]
            /\ spc' = [spc EXCEPT ![c] = "loop"]
            /\ UNCHANGED sret
    /\ UNCHANGED <<rev, bpc, bret>>
    /\ UNCHANGED doVars

\* The range is exhausted: return i, nil.
BGSaveEnd(c) ==
    /\ spc[c] = "loop"
    /\ SavePool(c) > Pools
    /\ sret' = [sret EXCEPT ![c] = [n |-> si[c], err |-> NoErr]]
    /\ spc' = [spc EXCEPT ![c] = "returned"]
    /\ UNCHANGED <<rev, bpc, bret, si, slog>>
    /\ UNCHANGED doVars

\* One caller calls BLPop and BGSave one after another, BLPop being of
\* either revision.
CmdInit == InitWith(MaxShards, {1}) /\ \E rv \in Revisions : CmdIdle(rv)

CmdNext ==
    \/ \E c \in live, k \in CallKeys : BLPopCall(c, k)
    \/ \E c \in live : BLPopReturn(c)
    \/ \E c \in live : BGSaveCall(c)
    \/ \E c \in live : BGSaveGet(c)
    \/ \E c \in live, e \in {NoErr} \cup {ErrOf(i) : i \in Shards} : BGSaveDo(c, e)
    \/ \E c \in live : BGSaveEnd(c)
    \/ \E c \in live, i \in Shards : \E r \in Replies(i) : doFastReturn(c, r)
    \/ \E c \in live, i \in Shards : doInstanceGet(c, i)
    \/ \E c \in live, i \in Shards : cmdIssue(c, i)
    \/ \E c \in live, i \in Shards : \E r \in Replies(i) : cmdReturn(c, i, r)
    \/ \E c \in live, i \in Shards : cmdTest(c, i)
    \/ \E c \in live, i \in Shards : cmdRecord(c, i)
    \/ \E w \in MapWriters, x \in MapWriters : mapFault(w, x)
    \/ \E c \in live, i \in Shards : resultsRecv(c, i)
    \/ \E c \in live, i \in Shards : cmdDoneRecv(c, i)
    \/ \E c \in live, seen \in {Chan, NilChan} : collectorLoop(c, seen)
    \/ \E c \in live, j \in Shards : stopSend(c, j)
    \/ \E c \in live : doReturn(c)

CmdSpec == CmdInit /\ [][CmdNext]_vars

\* ------------------------------------------------------------- properties
Returned(c) == dpc[c] = "returned"
Discovery(c) == path[c] = "discovery"
FastPath(c) == path[c] = "fast"
InCall(c) == dpc[c] # "idle"
Only(s) == [i \in Shards |-> IF i = s THEN 1 ELSE 0]

\* When do has returned from a discovery round every command goroutine of
\* the round is over, in its empty loop or was never started: a later round
\* of the same caller may take over the round's variables.
LeftoversInert ==
    \A c \in Callers : Returned(c) =>
        /\ \A i \in Shards : ipc[c][i] \in {"none", "done", "spin"}
        /\ \A i \in Shards : wpc[c][i] \in {"none", "done"}
        /\ cpc[c] \in {"none", "loop", "recv", "done"}

\* C1: when do returns from a discovery round in which exactly one pool's
\* reply satisfied canMap, it returns that pool's val and err and KeyInstance
\* maps the key to that pool; a later do on a key resolved that way takes
\* the fast path and starts no discovery round.
C1_SingleAcceptReturnsAndMaps ==
    \A c \in Callers :
        /\ (Discovery(c) /\ Returned(c) /\ Cardinality(accepted[c]) = 1) =>
               \E w \in accepted[c] :
                   /\ ret[c] = reply[c][w]
                   /\ KeyInstance[cmd[c].key] = w
        /\ (InCall(c) /\ known[c]) => FastPath(c)

C1_Witness ==
    \E c \in Callers :
        /\ Pools >= 2
        /\ calls[c] >= 2
        /\ known[c]
        /\ FastPath(c)
        /\ Returned(c)

\* C2: a do on a key that has a KeyInstance entry takes one connection, from
\* the mapped pool, and issues one command, on that connection; it takes no
\* connection from and issues no command to any other pool.
C2_FastPathOneShardOnly ==
    \A c \in Callers :
        (InCall(c) /\ lookup[c] # NoPool) =>
            /\ FastPath(c)
            /\ acquired[c] = Only(lookup[c])
            /\ issued[c] = Only(lookup[c])

C2_Witness ==
    \E c \in Callers :
        /\ Pools >= 2
        /\ lookup[c] = 2
        /\ Returned(c)
        /\ issued[c] = Only(2)

\* C3: when do returns from a discovery round in which no pool's reply
\* satisfied canMap, it returns a nil value with the no-mapping error and
\* KeyInstance has no entry for the key.
C3_NoAcceptNoMapping ==
    \A c \in Callers :
        (Discovery(c) /\ Returned(c) /\ accepted[c] = {}) =>
            /\ ret[c] = RedisReturn(NilVal, NoMappingErr)
            /\ KeyInstance[cmd[c].key] = NoPool

C3_Witness ==
    \E c \in Callers :
        /\ Pools >= 2
        /\ Discovery(c)
        /\ Returned(c)
        /\ accepted[c] = {}
        /\ \A i \in PoolSet : issued[c][i] = 1

\* C4: a discovery round in which two or more pools' replies satisfied
\* canMap does not come to a stop before do has returned.
C4_MultiAcceptTerminates ==
    \A c \in Callers :
        (Discovery(c) /\ Cardinality(accepted[c]) >= 2) =>
            (Returned(c) \/ ENABLED Next)

\* C5: in one discovery round KeyInstance is written at most once, however
\* many pools' replies satisfy canMap.
C5_WrittenOnce ==
    \A c \in Callers : Discovery(c) => wrote[c] <= 1

\* C6: a discovery round in which at most one pool's reply satisfied canMap
\* does not come to a stop before do has returned, and no doInstance signals
\* the wait group more than once.
C6_SingleAcceptTerminates ==
    \A c \in Callers :
        (Discovery(c) /\ Cardinality(accepted[c]) <= 1) =>
            /\ Returned(c) \/ ENABLED Next
            /\ wg[c] >= 0

\* C7: in a discovery round every pool's connection is taken once and
\* closed at most once, and when the round has come to rest (do has returned
\* or no goroutine can take a step) every connection has been closed.
C7_AcquireReleaseBalanced ==
    \A c \in Callers : Discovery(c) =>
        /\ \A i \in PoolSet : acquired[c][i] <= 1 /\ released[c][i] <= acquired[c][i]
        /\ (Returned(c) \/ ~ENABLED Next) =>
               \A i \in PoolSet : acquired[c][i] = 1 /\ released[c][i] = 1

\* C8: when do has returned from a discovery round every doInstance of the
\* round has returned and every connection taken in the round is closed.
C8_ReturnAfterAllWorkers ==
    \A c \in Callers :
        (Discovery(c) /\ Returned(c)) =>
            \A i \in PoolSet :
                /\ wpc[c][i] = "done"
                /\ acquired[c][i] = 1
                /\ released[c][i] = 1

C8_Witness ==
    \E c \in Callers :
        /\ Pools >= 2
        /\ Discovery(c)
        /\ Returned(c)
        /\ from[c] # NoPool
        /\ ret[c] = reply[c][from[c]]

C10_EntryPermanent ==
    [][\A k \in Keys :
          KeyInstance[k] # NoPool => KeyInstance'[k] = KeyInstance[k]]_vars

\* The process was ended by the runtime.
Crashed == \E c \in Callers : dpc[c] = "crashed"

\* C11: at most one goroutine at a time is inside an assignment to the
\* KeyInstance map.
C11_MapWritesExclusive == Cardinality(MapWriters) <= 1

\* C12: when a result has been adopted and the stop message delivered, a
\* round that has come to rest has no doInstance of another pool left
\* waiting: every one of them observed the stop or the end of its own
\* command.
C12_StopReachesEveryWorker ==
    \A c \in Callers :
        (Discovery(c) /\ ~Crashed /\ stopped[c] # {} /\ ~ENABLED Next) =>
            \A i \in PoolSet \ {from[c]} : wpc[c][i] = "done"

C14_NoMappingErrAfterAllReplies ==
    \A c \in Callers :
        (Discovery(c) /\ Returned(c) /\ ret[c].err = NoMappingErr) =>
            \A i \in PoolSet : issued[c][i] = 1 /\ replied[c][i] = 1

C14_Witness ==
    \E c \in Callers :
        /\ Pools >= 2
        /\ Discovery(c)
        /\ Returned(c)
        /\ ret[c].err = NoMappingErr
        /\ cmd[c].pred = "notNil"
        /\ \A i \in PoolSet : replied[c][i] = 1

\* The pools whose reply was not accepted and came with an error.
RejectedWithErr(c) ==
    {i \in PoolSet : /\ i \notin accepted[c]
                     /\ ipc[c][i] \in {"cmdDone", "done"}
                     /\ reply[c][i].err # NoErr}

\* C15: a discovery round in which a pool's reply came with an error and
\* was not accepted does not come to rest before every doInstance of the
\* round has closed its connection and notified the wait group.
C15_RoundCompletesDespiteError ==
    \A c \in Callers :
        (Discovery(c) /\ ~Crashed /\ RejectedWithErr(c) # {} /\ ~ENABLED Next) =>
            \A i \in PoolSet : wpc[c][i] = "done" /\ released[c][i] = 1

\* C15, the part that is about the error: the command goroutine of a pool
\* whose reply was not accepted, with an error or without, goes on to
\* cmdDone <- true, where its doInstance is waiting for it unless the stop
\* message took it away; once the message is taken the doInstance has
\* closed its connection and notified the wait group; when do returns every
\* such doInstance has; and when do returns an invocation error, it is the
\* error of the pool whose accepted reply it returns.
C15_ErrorIsNonAcceptance ==
    \A c \in Callers : (Discovery(c) /\ ~Crashed) =>
        /\ \A i \in PoolSet \ accepted[c] :
               /\ ipc[c][i] = "cmdDone" => wpc[c][i] \in {"select", "done"}
               /\ ipc[c][i] = "done" =>
                      wpc[c][i] = "done" /\ released[c][i] = 1
               /\ Returned(c) => wpc[c][i] = "done" /\ released[c][i] = 1
        /\ (Returned(c) /\ ret[c].err \notin {NoErr, NoMappingErr}) =>
               /\ from[c] \in accepted[c]
               /\ ret[c] = reply[c][from[c]]
               /\ ret[c].err = ErrOf(from[c])

C15_ErrorIsNonAcceptanceSeen ==
    \E c \in Callers :
        /\ Discovery(c)
        /\ Returned(c)
        /\ RejectedWithErr(c) = {1}
        /\ from[c] = 2
        /\ ret[c].err = NoErr
        /\ wpc[c][1] = "done"

\* C16: when do returns on the fast path it returns the val and err of the
\* invocation on the mapped pool as they came, the one connection it took
\* is closed once, and the entry of the key is what it was.
C16_FastPathVerbatim ==
    \A c \in Callers :
        /\ (FastPath(c) /\ Returned(c)) =>
               /\ ret[c] = reply[c][lookup[c]]
               /\ acquired[c] = Only(lookup[c])
               /\ released[c] = Only(lookup[c])
               /\ wrote[c] = 0
               /\ KeyInstance[cmd[c].key] = lookup[c]
        /\ (FastPath(c) /\ dpc[c] = "fastDo") => released[c] = Zero

C16_Witness ==
    \E c \in Callers :
        /\ FastPath(c)
        /\ Returned(c)
        /\ lookup[c] = 2
        /\ ret[c] = RedisReturn(NilVal, ErrOf(2))
        /\ released[c] = Only(2)

\* C17: BGSAVE is issued on the pools in their order, on the next only
\* after the one before returned no error; BGSave returns at the first
\* error with the number of commands that returned none, and with the
\* number of pools and no error when all did; do is not in progress
\* meanwhile.
C17_BGSaveCountsSuccesses ==
    \A c \in Callers :
        LET log == slog[c]
            ok == {n \in 1..Len(log) : log[n].err = NoErr}
        IN
        /\ \A n \in 1..Len(log) :
               /\ log[n].pool = n
               /\ n < Len(log) => log[n].err = NoErr
        /\ spc[c] \in {"loop", "do"} =>
               /\ ok = 1..Len(log)
               /\ si[c] = Len(log)
               /\ dpc[c] \in {"idle", "returned"}
        /\ spc[c] = "returned" =>
               /\ sret[c].n = Cardinality(ok)
               /\ IF sret[c].err = NoErr
                  THEN Len(log) = Pools /\ ok = 1..Pools
                  ELSE /\ Len(log) >= 1
                       /\ sret[c].err = log[Len(log)].err
                       /\ ok = 1..(Len(log) - 1)

C17_Witness ==
    \E c \in Callers :
        /\ Pools >= 2
        /\ spc[c] = "returned"
        /\ sret[c] = [n |-> 1, err |-> ErrOf(2)]
        /\ Len(slog[c]) = 2

\* C18: a BLPop whose discovery round accepted no pool's reply returns the
\* timed-out error, not the no-mapping error of do, and does not panic.
C18_TimeoutNotRoutingFailure ==
    \A c \in Callers :
        (Discovery(c) /\ accepted[c] = {} /\ bpc[c] \in {"returned", "panicked"}) =>
            /\ bpc[c] = "returned"
            /\ bret[c].err = TimedOutErr

\* C19: a doInstance that received the stop message has returned, closed
\* its connection and notified the wait group, whatever its command
\* goroutine is doing.
C19_StopReturnsAtOnce ==
    \A c \in Callers : (Discovery(c) /\ ~Crashed) =>
        /\ \A j \in stopped[c] : wpc[c][j] = "done" /\ released[c][j] = 1
        /\ wg[c] = Cardinality({i \in PoolSet : wpc[c][i] # "done"})

C19_Witness ==
    \E c \in Callers : \E j \in stopped[c] :
        /\ Discovery(c)
        /\ ipc[c][j] = "test"
        /\ wpc[c][j] = "done"
        /\ wg[c] = Pools - 1

\* C20: a doInstance whose reply was accepted has not notified the wait
\* group unless the collector has read a result, the one of its own command
\* goroutine if that goroutine is past its send; and when do returns from a
\* round with an accepted reply it returns the result read, not the default.
C20_NoNotifyBeforeRead ==
    \A c \in Callers : (Discovery(c) /\ ~Crashed) =>
        /\ \A i \in accepted[c] : wpc[c][i] = "done" =>
               /\ from[c] # NoPool
               /\ res[c] # DefaultRes
               /\ ipc[c][i] = "spin" => (from[c] = i /\ res[c] = reply[c][i])
        /\ (Returned(c) /\ accepted[c] # {}) =>
               /\ from[c] \in accepted[c]
               /\ ret[c] = reply[c][from[c]]
               /\ ret[c] # DefaultRes

C20_Witness ==
    \E c \in Callers :
        /\ Pools >= 2
        /\ Discovery(c)
        /\ Returned(c)
        /\ accepted[c] = {1}
        /\ ipc[c][1] = "spin"
        /\ stopped[c] = {1}
        /\ ret[c] = reply[c][1]

\* C21: a discovery round starts a doInstance for each pool and for nothing
\* else; each takes at most one connection and its command goroutine calls
\* conn.Do at most once; a pool whose command is not issued yet has its
\* doInstance or its command goroutine still at the start; and when do
\* returns every pool's connection was taken once and its command issued
\* once.
C21_OneCommandPerPool ==
    \A c \in Callers : (Discovery(c) /\ ~Crashed) =>
        /\ \A i \in PoolSet :
               /\ wpc[c][i] # "none"
               /\ acquired[c][i] = (IF wpc[c][i] = "start" THEN 0 ELSE 1)
               /\ issued[c][i] <= 1
               /\ issued[c][i] = 0 =>
                      (wpc[c][i] = "start" \/ ipc[c][i] = "start")
               /\ Returned(c) => (acquired[c][i] = 1 /\ issued[c][i] = 1)
        /\ \A i \in Shards \ PoolSet :
               /\ wpc[c][i] = "none"
               /\ acquired[c][i] = 0
               /\ issued[c][i] = 0

C21_Witness ==
    \E c \in Callers :
        /\ Pools = 2
        /\ Discovery(c)
        /\ Returned(c)
        /\ accepted[c] = {2}
        /\ \A i \in PoolSet : acquired[c][i] = 1 /\ issued[c][i] = 1
        /\ \A i \in Shards \ PoolSet : wpc[c][i] = "none"

\* C22: when every pool's invocation of a discovery round has returned and
\* no goroutine can take a step any more, every doInstance, every command
\* goroutine and the collecting goroutine of the round have ended: none is
\* in its empty loop, blocked in a send or blocked in a receive.
C22_EveryTaskEnds ==
    \A c \in Callers :
        (/\ Discovery(c)
         /\ ~Crashed
         /\ \A i \in PoolSet : replied[c][i] = 1
         /\ ~ENABLED Next) =>
            /\ \A i \in PoolSet : wpc[c][i] = "done" /\ ipc[c][i] = "done"
            /\ cpc[c] = "done"
====
